---- MODULE Spec2Model ----
(***************************************************************************)
(* State-machine model of the useStateMachine hook (src/src/logger.ts).    *)
(*                                                                         *)
(* The hook is a reducer (getReducer/reducer, lines 52-95) placed under    *)
(* React's useReducer (line 120) and one useEffect keyed on machine.value  *)
(* (lines 125-128).  The model keeps the three pieces apart:               *)
(*   Send / effect calls  put a message on the reducer hook's update queue *)
(*   Render               folds the queued messages through reducer, in    *)
(*                        order, and commits the resulting snapshot        *)
(*   FlushEffects         the useEffect callback: runs only when           *)
(*                        machine.value differs from the value the effect  *)
(*                        last ran for; previous cleanup, then the effect  *)
(* The model covers the mounted lifetime of one hook instance.             *)
(***************************************************************************)
EXTENDS Integers, Sequences, FiniteSets, TLC

VARIABLES
    config,     \* the configuration object passed to the hook
    machine,    \* the committed snapshot {value, context, nextEvents}
    queue,      \* messages passed to send and not yet reduced
    phase,      \* "committed": a commit's useEffect is pending; "idle"; "crashed"
    deps,       \* the [machine.value] dependency the effect last ran with
    exit,       \* the cleanup returned by the last effect run (line 127)
    error,      \* "none", or where an exception surfaced: "construction" (the
                \* useStateMachine call), "render" (React's render of the
                \* component), "effect" (React's flush of passive effects)
    sent,       \* history: every message passed to send, in call order (at: the
                \* number of reducer calls made before the send)
    resolved,   \* history: every reducer call (message, snapshot before, after)
    effects     \* history: every entry effect / exit callback invocation

vars == <<config, machine, queue, phase, deps, exit, error, sent, resolved, effects>>

(***************************************************************************)
(* Bounds                                                                  *)
(***************************************************************************)
\* number of send calls the host (not the effects) makes in one behaviour
MaxSends == 3

(***************************************************************************)
(* Values                                                                  *)
(***************************************************************************)
\* the private symbol tagging a context-update message
__contextKey == "Symbol(CONTEXT)"

\* c.count of the empty object {} and the result of arithmetic on it
Undefined == -1
NaN == -2

\* updater functions the effects pass to update; anything else passed as
\* `updater` is not callable
Updaters == {"inc", "dbl"}

Plus(a, b) == IF a < 0 \/ b < 0 THEN NaN ELSE a + b

Times(a, b) == IF a < 0 \/ b < 0 THEN NaN ELSE a * b

\* context => ({count: context.count + 1}) and context => ({count: context.count * 2})
ApplyUpdater(f, context) ==
    IF f = "inc" THEN [count |-> Plus(context.count, 1)]
    ELSE [count |-> Times(context.count, 2)]

\* guard functions (state, event) => boolean
GuardResult(g, state, event) ==
    CASE g = "allow" -> TRUE
      [] g = "deny" -> FALSE
      [] g = "fromInactive" -> state = "inactive"
      [] OTHER -> TRUE

\* a guard whose body throws instead of returning
GuardThrows(g) == g = "throws"

\* a Transition: the shorthand string, or the object {target, guard?}
Short(e, t) == [event |-> e, form |-> "string", target |-> t, guard |-> "none"]

Obj(e, t, g) == [event |-> e, form |-> "object", target |-> t, guard |-> g]

\* an effect: the calls it makes on its first parameter, whether it returns a
\* function, and the calls that function makes on its first parameter
NoEffect ==
    [defined |-> FALSE, calls |-> <<>>, returnsExit |-> FALSE, exitCalls |-> <<>>,
     throws |-> FALSE]

Effect(calls, returnsExit, exitCalls) ==
    [defined |-> TRUE, calls |-> calls, returnsExit |-> returnsExit, exitCalls |-> exitCalls,
     throws |-> FALSE]

\* an effect whose body throws
ThrowingEffect ==
    [defined |-> TRUE, calls |-> <<>>, returnsExit |-> FALSE, exitCalls |-> <<>>,
     throws |-> TRUE]

\* a state definition with an `on` map (its entries in insertion order)
StateOn(on, effect) == [hasOn |-> TRUE, on |-> on, effect |-> effect]

\* a state definition without `on`
StateNoOn(effect) == [hasOn |-> FALSE, on |-> <<>>, effect |-> effect]

(***************************************************************************)
(* Configurations the hook is called with                                  *)
(***************************************************************************)
\* the toggle machine; `active` counts its entries in the context
ToggleConfig ==
    [initial |-> "inactive",
     states |-> [inactive |-> StateOn(<<Short("TOGGLE", "active")>>, NoEffect),
                 active |-> StateOn(<<Short("TOGGLE", "inactive")>>,
                                    Effect(<<"inc">>, FALSE, <<>>))]]

\* two states whose entry effects return an exit callback and one state
\* without an effect; a transition to the current state; shorthand and object
\* forms side by side
ExitConfig ==
    [initial |-> "inactive",
     states |-> [inactive |-> StateOn(<<Short("TOGGLE", "active"),
                                        Obj("STAY", "inactive", "none"),
                                        Short("PAUSE", "paused")>>,
                                      Effect(<<>>, TRUE, <<"dbl">>)),
                 active |-> StateOn(<<Obj("TOGGLE", "inactive", "none"),
                                      Short("STAY", "active")>>,
                                    Effect(<<"inc">>, TRUE, <<>>)),
                 paused |-> StateOn(<<Short("TOGGLE", "inactive")>>, NoEffect)]]

\* guarded transitions; `active` has no `on` map at all
GuardConfig ==
    [initial |-> "inactive",
     states |-> [inactive |-> StateOn(<<Obj("TOGGLE", "active", "deny"),
                                        Obj("FORCE", "active", "allow"),
                                        Obj("STAY", "inactive", "fromInactive")>>,
                                      Effect(<<"inc">>, TRUE, <<>>)),
                 active |-> StateNoOn(Effect(<<"inc">>, FALSE, <<>>))]]

\* README lines 141-156: `error` calls its first parameter with 'RETRY'
RetryConfig ==
    [initial |-> "loading",
     states |-> [loading |-> StateOn(<<Short("FAILURE", "error"),
                                       Short("SUCCESS", "load")>>, NoEffect),
                 error |-> StateOn(<<Short("RETRY", "load")>>,
                                   Effect(<<"RETRY">>, FALSE, <<>>)),
                 load |-> StateOn(<<Short("FAILURE", "error")>>,
                                  Effect(<<>>, TRUE, <<>>))]]

\* an event named like a property every object inherits
InheritedNameConfig ==
    [initial |-> "raw",
     states |-> [raw |-> StateOn(<<Short("toString", "text")>>, NoEffect),
                 text |-> StateOn(<<Short("RESET", "raw")>>,
                                  Effect(<<"inc">>, TRUE, <<>>))]]

\* a state whose name is the empty string, targeted in both forms
EmptyNameConfig ==
    [initial |-> "on",
     states |-> ("on" :> StateOn(<<Short("STOP", ""), Obj("HALT", "", "none")>>,
                                 Effect(<<"inc">>, TRUE, <<>>))
                 @@ "" :> StateOn(<<Short("START", "on")>>, NoEffect))]

\* transitions whose target is not a key of states: a name nothing defines,
\* and a name every object inherits
BadTargetConfig ==
    [initial |-> "idle",
     states |-> [idle |-> StateOn(<<Short("GO", "nowhere"),
                                    Obj("JUMP", "constructor", "allow"),
                                    Obj("BLOCKED", "nowhere", "deny")>>,
                                  Effect(<<"inc">>, TRUE, <<>>))]]

\* `initial` is not a key of states: a name nothing defines
MissingInitialConfig ==
    [initial |-> "missing",
     states |-> [idle |-> StateOn(<<Short("GO", "busy")>>, NoEffect),
                 busy |-> StateOn(<<Short("DONE", "idle")>>, NoEffect)]]

\* `initial` is not a key of states: a name every object inherits
InheritedInitialConfig ==
    [initial |-> "constructor",
     states |-> [idle |-> StateOn(<<Short("GO", "busy")>>, NoEffect),
                 busy |-> StateOn(<<Short("DONE", "idle")>>, NoEffect)]]

\* a guard that throws and an entry effect that throws
FailingConfig ==
    [initial |-> "idle",
     states |-> [idle |-> StateOn(<<Obj("CHECK", "done", "throws"),
                                    Short("BREAK", "broken")>>,
                                  Effect(<<"inc">>, TRUE, <<"dbl">>)),
                 broken |-> StateOn(<<Short("RESET", "idle")>>, ThrowingEffect),
                 done |-> StateOn(<<Short("RESET", "idle")>>, NoEffect)]]

Configs ==
    {ToggleConfig, ExitConfig, GuardConfig, RetryConfig, InheritedNameConfig,
     EmptyNameConfig, BadTargetConfig, MissingInitialConfig, InheritedInitialConfig,
     FailingConfig}

\* the optional context argument of useStateMachine
ContextArgs == {[given |-> TRUE, value |-> [count |-> 0]],
                [given |-> FALSE, value |-> [count |-> Undefined]]}

\* property names every object literal inherits from Object.prototype; a
\* lookup obj[name] finds them when obj has no own property of that name
ObjectPrototype == {"constructor", "toString"}

\* the Event type of a configuration (line 110): the keys of all its `on` maps
EventsOf(cfg) ==
    UNION {{cfg.states[s].on[i].event : i \in DOMAIN cfg.states[s].on} :
           s \in DOMAIN cfg.states}

(***************************************************************************)
(* The reducer (lines 60-95)                                               *)
(***************************************************************************)
\* a message passed to send: an event name, or the internal context update
EventMsg(e) == [type |-> "string", arg |-> e]

UpdateMsg(updater) == [type |-> __contextKey, arg |-> updater]

\* Object.keys(stateDef.on ?? [])
ObjectKeys(stateDef) ==
    IF stateDef.hasOn THEN [i \in DOMAIN stateDef.on |-> stateDef.on[i].event] ELSE <<>>

\* whether `on` has an own property named e
HasOwn(on, e) == \E i \in DOMAIN on : on[i].event = e

\* whether currentState?.on?.[event] is defined (line 70): an own entry of
\* `on`, or a property `on` inherits
HasTransition(cfg, value, event) ==
    /\ event.type = "string"
    /\ value \in DOMAIN cfg.states
    /\ cfg.states[value].hasOn
    /\ HasOwn(cfg.states[value].on, event.arg) \/ event.arg \in ObjectPrototype

\* an inherited property is a function: typeof is neither 'string' nor
\* 'object', and its .target and .guard are undefined
Inherited(e) == [event |-> e, form |-> "function", target |-> "undefined", guard |-> "none"]

\* currentState.on[event]
TransitionOf(cfg, value, event) ==
    LET on == cfg.states[value].on
    IN IF HasOwn(on, event.arg)
       THEN on[CHOOSE i \in DOMAIN on : on[i].event = event.arg]
       ELSE Inherited(event.arg)

\* !nextState for a defined transition: only the empty string is falsy
Falsy(transition) == transition.form = "string" /\ transition.target = ""

Return(state) == [threw |-> FALSE, state |-> state]

Throw(state) == [threw |-> TRUE, state |-> state]

\* variant: the spread is lost and nextEvents is not carried over
updateContext_dropsNextEvents(state, event) ==
    IF event.arg \in Updaters
    THEN Return([state EXCEPT !.context = ApplyUpdater(event.arg, state.context),
                              !.nextEvents = <<>>])
    ELSE Throw(state)

\* lines 73-78: {...state, context: event.updater(state.context)}
updateContext(state, event) ==
    IF event.arg \in Updaters
    THEN Return([state EXCEPT !.context = ApplyUpdater(event.arg, state.context)])
    ELSE Throw(state)

\* variant: the guard is never consulted
guardDenies_ignored(nextState, state, event) == FALSE

\* variant: the two arguments are passed in the other order
guardArgs_swapped(state, event) == <<event.arg, state.value>>

\* line 86: the arguments of nextState.guard(state.value as string, event as string)
guardArgs(state, event) == <<state.value, event.arg>>

\* line 86: the transition has a guard and the guard returns false
guardDenies(nextState, state, event) ==
    /\ nextState.form = "object"
    /\ nextState.guard # "none"
    /\ ~GuardResult(nextState.guard, guardArgs(state, event)[1], guardArgs(state, event)[2])

\* variant: nextEvents is not recomputed for the target
transitionTo_staleNextEvents(cfg, state, nextStateValue) ==
    IF nextStateValue \in DOMAIN cfg.states \/ nextStateValue \in ObjectPrototype
    THEN Return([state EXCEPT !.value = nextStateValue])
    ELSE Throw(state)

\* variant: the new snapshot is built without the previous context
transitionTo_dropsContext(cfg, state, nextStateValue) ==
    IF nextStateValue \in DOMAIN cfg.states
    THEN Return([state EXCEPT
                   !.value = nextStateValue,
                   !.context = [count |-> Undefined],
                   !.nextEvents = ObjectKeys(cfg.states[nextStateValue])])
    ELSE IF nextStateValue \in ObjectPrototype
    THEN Return([state EXCEPT !.value = nextStateValue, !.nextEvents = <<>>])
    ELSE Throw(state)

\* lines 90-94: {...state, value: nextStateValue, nextEvents: Object.keys(...)}
\* config.states[name] is a state definition, an inherited property (whose
\* .on is undefined), or undefined (whose .on is a TypeError)
transitionTo(cfg, state, nextStateValue) ==
    IF nextStateValue \in DOMAIN cfg.states
    THEN Return([state EXCEPT
                   !.value = nextStateValue,
                   !.nextEvents = ObjectKeys(cfg.states[nextStateValue])])
    ELSE IF nextStateValue \in ObjectPrototype
    THEN Return([state EXCEPT !.value = nextStateValue, !.nextEvents = <<>>])
    ELSE Throw(state)

\* variant: an event the current state does not define is rejected
resolveEvent_rejectsUnknown(cfg, state, event) ==
    IF ~HasTransition(cfg, state.value, event)
    THEN Throw(state)
    ELSE LET nextState == TransitionOf(cfg, state.value, event)
         IN IF Falsy(nextState) THEN Return(state)
            ELSE IF nextState.form = "object" /\ GuardThrows(nextState.guard)
            THEN Throw(state)
            ELSE IF guardDenies(nextState, state, event) THEN Return(state)
            ELSE transitionTo(cfg, state, nextState.target)

\* lines 80-94: an event name
resolveEvent(cfg, state, event) ==
    IF ~HasTransition(cfg, state.value, event)
    THEN Return(state)
    ELSE LET nextState == TransitionOf(cfg, state.value, event)
         IN IF Falsy(nextState) THEN Return(state)
            ELSE IF nextState.form = "object" /\ GuardThrows(nextState.guard)
            THEN Throw(state)
            ELSE IF guardDenies(nextState, state, event) THEN Return(state)
            ELSE transitionTo(cfg, state, nextState.target)

\* variant: an update is applied only in a state that has an `on` map
reducer_updateNeedsOn(cfg, state, event) ==
    IF event.type = __contextKey
    THEN IF state.value \in DOMAIN cfg.states /\ cfg.states[state.value].hasOn
         THEN updateContext(state, event)
         ELSE Return(state)
    ELSE resolveEvent(cfg, state, event)

reducer(cfg, state, event) ==
    IF event.type = __contextKey
    THEN updateContext(state, event)
    ELSE resolveEvent(cfg, state, event)

\* the guard calls one reducer call makes (line 86 is reached only past the
\* returns of lines 73-81 and evaluates the guard of an object-form transition)
guardCalls(cfg, state, event) ==
    IF event.type = __contextKey \/ ~HasTransition(cfg, state.value, event)
    THEN <<>>
    ELSE LET nextState == TransitionOf(cfg, state.value, event)
         IN IF ~Falsy(nextState) /\ nextState.form = "object" /\ nextState.guard # "none"
            THEN <<[guard |-> nextState.guard, args |-> guardArgs(state, event)]>>
            ELSE <<>>

\* the initial snapshot (lines 112-116)
initialState(context, cfg) ==
    LET ctx == IF context.given THEN context.value ELSE [count |-> Undefined]
    IN IF cfg.initial \in DOMAIN cfg.states
       THEN Return([value |-> cfg.initial, context |-> ctx,
                    nextEvents |-> ObjectKeys(cfg.states[cfg.initial])])
       ELSE IF cfg.initial \in ObjectPrototype
       THEN Return([value |-> cfg.initial, context |-> ctx, nextEvents |-> <<>>])
       ELSE Throw([value |-> cfg.initial, context |-> ctx, nextEvents |-> <<>>])

\* useReducer processing its queue in a render: the messages are reduced in
\* the order they were sent, each against the result of the one before
\* (batch: the number of reducer calls made before this render)
RECURSIVE ReduceQueue(_, _, _, _)
ReduceQueue(cfg, state, q, batch) ==
    IF q = <<>> THEN [threw |-> FALSE, state |-> state, steps |-> <<>>]
    ELSE LET r == reducer(cfg, state, Head(q))
             step == [msg |-> Head(q), before |-> state, after |-> r.state,
                      threw |-> r.threw, batch |-> batch,
                      guards |-> guardCalls(cfg, state, Head(q))]
         IN IF r.threw
            THEN [threw |-> TRUE, state |-> state, steps |-> <<step>>]
            ELSE LET rest == ReduceQueue(cfg, r.state, Tail(q), batch)
                 IN [threw |-> rest.threw, state |-> rest.state,
                     steps |-> <<step>> \o rest.steps]

(***************************************************************************)
(* The hook (lines 106-139)                                                *)
(***************************************************************************)
\* update (line 123) called once per argument, in order
UpdateCalls(args) == [i \in DOMAIN args |-> UpdateMsg(args[i])]

NoExit == [has |-> FALSE, state |-> "", id |-> 0]

NoDeps == [ran |-> FALSE, value |-> ""]

\* config.states[machine.value]?.effect
EffectOf(cfg, value) ==
    IF value \in DOMAIN cfg.states THEN cfg.states[value].effect ELSE NoEffect

Init ==
    \E cfg \in Configs, context \in ContextArgs :
        LET first == initialState(context, cfg)
        IN /\ config = cfg
           /\ machine = first.state
           /\ queue = <<>>
           /\ phase = IF first.threw THEN "crashed" ELSE "committed"
           /\ deps = NoDeps
           /\ exit = NoExit
           /\ error = IF first.threw THEN "construction" ELSE "none"
           /\ sent = <<>>
           /\ resolved = <<>>
           /\ effects = <<>>

HostSends == Len(SelectSeq(sent, LAMBDA m : m.by = "host"))

\* variant: new messages are put in front of the pending ones
enqueue_inFront(q, msgs) == msgs \o q

\* send(message): the hook's update queue keeps the messages in call order
enqueue(q, msgs) == q \o msgs

\* the host calls send(event)
Send(e) ==
    /\ phase # "crashed"
    /\ HostSends < MaxSends
    /\ queue' = enqueue(queue, <<EventMsg(e)>>)
    /\ sent' = Append(sent, [by |-> "host", msg |-> EventMsg(e), at |-> Len(resolved)])
    /\ UNCHANGED <<config, machine, phase, deps, exit, error, resolved, effects>>

\* a render with queued messages: useReducer (line 120) reduces them all and
\* the result is committed; a throwing reducer fails the render
Render ==
    /\ phase = "idle"
    /\ queue # <<>>
    /\ LET r == ReduceQueue(config, machine, queue, Len(resolved))
       IN /\ resolved' = resolved \o r.steps
          /\ queue' = <<>>
          /\ IF r.threw
             THEN /\ phase' = "crashed"
                  /\ error' = "render"
                  /\ UNCHANGED machine
             ELSE /\ phase' = "committed"
                  /\ machine' = r.state
                  /\ UNCHANGED error
    /\ UNCHANGED <<config, deps, exit, sent, effects>>

\* variant: no dependency array, the effect re-runs after every commit
DepsChanged_everyCommit == TRUE

\* whether useEffect re-runs its callback (line 128): first commit, or
\* machine.value changed
DepsChanged == ~deps.ran \/ deps.value # machine.value

\* variant: a cleanup is replaced only when the effect returns a function
Cleanup_keptWhenNoneReturned(eff, value, id) ==
    IF eff.defined /\ eff.returnsExit
    THEN [has |-> TRUE, state |-> value, id |-> id]
    ELSE exit

\* line 127: the cleanup is the returned function bound to update, if any
Cleanup(eff, value, id) ==
    IF eff.defined /\ eff.returnsExit
    THEN [has |-> TRUE, state |-> value, id |-> id]
    ELSE NoExit

\* variant: the previous cleanup runs after the new effect
Invocations_entryFirst(cleanupRun, effectRun) == effectRun \o cleanupRun

\* React runs the previous cleanup before the effect callback
Invocations(cleanupRun, effectRun) == cleanupRun \o effectRun

\* the passive effect of a commit (lines 125-128): when machine.value changed,
\* the previous cleanup runs, then the new state's effect; an effect that
\* throws fails the flush
FlushEffects ==
    /\ phase = "committed"
    /\ IF DepsChanged /\ EffectOf(config, machine.value).throws
       THEN phase' = "crashed" /\ error' = "effect"
       ELSE phase' = "idle" /\ UNCHANGED error
    /\ IF DepsChanged
       THEN LET eff == EffectOf(config, machine.value)
                at == Len(resolved)
                cleanupRun == IF exit.has
                              THEN <<[kind |-> "exit", state |-> exit.state, id |-> exit.id,
                                      at |-> at, value |-> machine.value]>>
                              ELSE <<>>
                cleanupArgs == IF exit.has
                               THEN EffectOf(config, exit.state).exitCalls ELSE <<>>
                entryId == Len(effects) + Len(cleanupRun) + 1
                effectRun == IF eff.defined
                             THEN <<[kind |-> "entry", state |-> machine.value,
                                     id |-> entryId, at |-> at, value |-> machine.value]>>
                             ELSE <<>>
                effectArgs == IF eff.defined THEN eff.calls ELSE <<>>
                msgs == UpdateCalls(Invocations(cleanupArgs, effectArgs))
            IN /\ effects' = effects \o Invocations(cleanupRun, effectRun)
               /\ queue' = enqueue(queue, msgs)
               /\ sent' = sent \o [i \in DOMAIN msgs |->
                                      [by |-> "effect", msg |-> msgs[i], at |-> at]]
               /\ exit' = Cleanup(eff, machine.value, entryId)
               /\ deps' = [ran |-> TRUE, value |-> machine.value]
       ELSE UNCHANGED <<effects, queue, sent, exit, deps>>
    /\ UNCHANGED <<config, machine, resolved>>

Next ==
    \/ \E e \in EventsOf(config) : Send(e)
    \/ Render
    \/ FlushEffects

Spec == Init /\ [][Next]_vars

(***************************************************************************)
(* Properties                                                              *)
(***************************************************************************)
\* the key set of states[s].on, empty when s has no `on` map
KeySet(cfg, s) ==
    IF s \in DOMAIN cfg.states /\ cfg.states[s].hasOn
    THEN {cfg.states[s].on[i].event : i \in DOMAIN cfg.states[s].on}
    ELSE {}

\* the elements of a sequence
Range(seq) == {seq[i] : i \in DOMAIN seq}

\* the entry of states[s].on for event e
OnEntry(cfg, s, e) ==
    CHOOSE t \in Range(cfg.states[s].on) : t.event = e

Constructed == error # "construction"

\* reducer calls whose message is an event name the state before does not define
Unrecognized(r) ==
    r.msg.type = "string" /\ r.msg.arg \notin KeySet(config, r.before.value)

\* C1: dispatching an event name E while value = S, where states[S].on has no
\* entry E (or S has no `on` map), yields a snapshot with the same value,
\* context and nextEvents, and raises no error.
C1_UnrecognizedEventIsNoOp ==
    \A i \in DOMAIN resolved :
        Unrecognized(resolved[i]) =>
            /\ ~resolved[i].threw
            /\ resolved[i].after = resolved[i].before

\* C2: in every reachable snapshot nextEvents is exactly the key set of
\* states[value].on, empty when the state has no `on` map.
C2_NextEventsIsKeySet ==
    /\ Constructed =>
          /\ Range(machine.nextEvents) = KeySet(config, machine.value)
          /\ Len(machine.nextEvents) = Cardinality(KeySet(config, machine.value))
    /\ \A i \in DOMAIN resolved :
          ~resolved[i].threw =>
              /\ Range(resolved[i].after.nextEvents)
                    = KeySet(config, resolved[i].after.value)
              /\ Len(resolved[i].after.nextEvents)
                    = Cardinality(KeySet(config, resolved[i].after.value))

\* a committed snapshot, reached by a transition, whose key set differs from
\* the key set of the state it came from
C2_Witness ==
    /\ phase = "idle"
    /\ \E i \in DOMAIN resolved :
          /\ resolved[i].after.value = machine.value
          /\ KeySet(config, resolved[i].before.value) # KeySet(config, machine.value)
          /\ machine.context.count > 0

\* reducer calls for an event whose transition is in object form with a guard
\* that returns
Guarded(r) ==
    /\ r.msg.type = "string"
    /\ r.msg.arg \in KeySet(config, r.before.value)
    /\ OnEntry(config, r.before.value, r.msg.arg).form = "object"
    /\ OnEntry(config, r.before.value, r.msg.arg).guard # "none"
    /\ ~GuardThrows(OnEntry(config, r.before.value, r.msg.arg).guard)

\* reducer calls for an event whose transition has a guard that throws
GuardFails(r) ==
    /\ r.msg.type = "string"
    /\ r.msg.arg \in KeySet(config, r.before.value)
    /\ OnEntry(config, r.before.value, r.msg.arg).form = "object"
    /\ GuardThrows(OnEntry(config, r.before.value, r.msg.arg).guard)

GuardAllows(r) ==
    GuardResult(OnEntry(config, r.before.value, r.msg.arg).guard, r.before.value, r.msg.arg)

\* C3: for a guarded object-form transition on E in S, a guard returning
\* false leaves the snapshot unchanged; a guard returning true makes value
\* the target and nextEvents the key set of the target's `on` map.
C3_GuardDecides ==
    \A i \in DOMAIN resolved :
        LET r == resolved[i]
        IN Guarded(r) =>
             IF GuardAllows(r)
             THEN /\ r.after.value = OnEntry(config, r.before.value, r.msg.arg).target
                  /\ Range(r.after.nextEvents) = KeySet(config, r.after.value)
                  /\ r.after.context = r.before.context
             ELSE r.after = r.before /\ ~r.threw

\* one guard denied and another allowed a transition to a different state
C3_Witness ==
    /\ \E i \in DOMAIN resolved : Guarded(resolved[i]) /\ ~GuardAllows(resolved[i])
    /\ \E i \in DOMAIN resolved :
          /\ Guarded(resolved[i])
          /\ GuardAllows(resolved[i])
          /\ resolved[i].after.value # resolved[i].before.value

\* reducer calls whose message is a context update carrying a function
ContextUpdate(r) == r.msg.type = __contextKey /\ r.msg.arg \in Updaters

\* C4: a context-update message changes only context, to updater(context);
\* value and nextEvents are those of the snapshot it was applied to.
C4_UpdateChangesOnlyContext ==
    \A i \in DOMAIN resolved :
        LET r == resolved[i]
        IN ContextUpdate(r) =>
             /\ ~r.threw
             /\ r.after.value = r.before.value
             /\ r.after.nextEvents = r.before.nextEvents
             /\ r.after.context = ApplyUpdater(r.msg.arg, r.before.context)

\* an update changed the context of a snapshot that has next events
C4_Witness ==
    \E i \in DOMAIN resolved :
        /\ ContextUpdate(resolved[i])
        /\ resolved[i].after.context # resolved[i].before.context
        /\ resolved[i].before.nextEvents # <<>>

(***************************************************************************)
(* Effect scheduling                                                       *)
(***************************************************************************)
HasEffect(cfg, s) == s \in DOMAIN cfg.states /\ cfg.states[s].effect.defined

ReturnsExit(cfg, s) == HasEffect(cfg, s) /\ cfg.states[s].effect.returnsExit

\* the invocations recorded so far, as <<kind, state>> pairs
EffectKinds == [i \in DOMAIN effects |-> <<effects[i].kind, effects[i].state>>]

\* the invocations a sequence of snapshot values calls for: the first value's
\* entry, then for each change of value the old state's exit callback (if its
\* entry effect returned one) followed by the new state's entry effect
RECURSIVE ExpectedEffects(_, _)
ExpectedEffects(cfg, values) ==
    IF values = <<>> THEN <<>>
    ELSE IF Len(values) = 1
    THEN IF HasEffect(cfg, values[1]) THEN << <<"entry", values[1]>> >> ELSE <<>>
    ELSE LET n == Len(values)
             prev == values[n - 1]
             cur == values[n]
             front == ExpectedEffects(cfg, SubSeq(values, 1, n - 1))
         IN IF cur = prev THEN front
            ELSE front
                 \o (IF ReturnsExit(cfg, prev) THEN << <<"exit", prev>> >> ELSE <<>>)
                 \o (IF HasEffect(cfg, cur) THEN << <<"entry", cur>> >> ELSE <<>>)

\* reducer calls that ended a render which was committed
EndsCommit(k) ==
    /\ ~resolved[k].threw
    /\ k = Len(resolved) \/ resolved[k + 1].batch # resolved[k].batch

\* the values of the snapshots committed so far, the initial one first
CommitValues ==
    LET ends == SelectSeq([k \in DOMAIN resolved |-> k], EndsCommit)
    IN <<config.initial>> \o [j \in DOMAIN ends |-> resolved[ends[j]].after.value]

\* the committed values whose passive effect has run
FlushedValues ==
    IF phase = "committed"
    THEN SubSeq(CommitValues, 1, Len(CommitValues) - 1)
    ELSE CommitValues

\* the values of all snapshots the reducer produced, the initial one first
ResolvedValues ==
    LET ok == SelectSeq(resolved, LAMBDA r : ~r.threw)
    IN <<config.initial>> \o [j \in DOMAIN ok |-> ok[j].after.value]

Quiescent == phase = "idle" /\ queue = <<>>

C6_EffectsForEveryValueChange ==
    (Constructed /\ Quiescent) =>
        EffectKinds = ExpectedEffects(config, ResolvedValues)

\* the render that ended with reducer call k started and ended in the same value
RenderKeptValue(k) ==
    resolved[resolved[k].batch + 1].before.value = resolved[k].after.value

\* C7: messages that leave value as it was (context update, unrecognized
\* event, denied event, transition to the current state) invoke neither the
\* pending exit callback nor an entry effect.
C7_NoEffectsWithoutValueChange ==
    \A i \in DOMAIN effects :
        effects[i].at > 0 => ~RenderKeptValue(effects[i].at)

SelfTransition(r) ==
    /\ r.msg.type = "string"
    /\ r.msg.arg \in KeySet(config, r.before.value)
    /\ ~r.threw
    /\ r.after.value = r.before.value
    /\ OnEntry(config, r.before.value, r.msg.arg).target = r.before.value

\* a context update, a denied event and a transition to the current state
\* were committed and flushed while an exit callback was pending, and only
\* the entry effect of construction has run
C7_Witness ==
    /\ Quiescent
    /\ exit.has
    /\ Len(effects) = 1
    /\ \E i \in DOMAIN resolved : ContextUpdate(resolved[i])
    /\ \E i \in DOMAIN resolved : Guarded(resolved[i]) /\ ~GuardAllows(resolved[i])
    /\ \E i \in DOMAIN resolved : SelfTransition(resolved[i])

\* C8: an exit callback is invoked at most once, only after the value has
\* left the state whose entry effect returned it, and before the next entry
\* effect is invoked; later transitions and updates never invoke it again.
C8_ExitCallbackOnce ==
    /\ \A i, j \in DOMAIN effects :
          (/\ effects[i].kind = "exit"
           /\ effects[j].kind = "exit"
           /\ effects[i].id = effects[j].id) => i = j
    /\ \A i \in DOMAIN effects :
          effects[i].kind = "exit" =>
              /\ effects[i].id \in 1..(i - 1)
              /\ effects[effects[i].id].kind = "entry"
              /\ effects[effects[i].id].state = effects[i].state
              /\ ReturnsExit(config, effects[i].state)
              /\ effects[i].value # effects[i].state
    /\ \A i, j \in DOMAIN effects :
          (/\ i < j
           /\ effects[i].kind = "entry"
           /\ effects[j].kind = "entry"
           /\ ReturnsExit(config, effects[i].state)) =>
              \E k \in (i + 1)..(j - 1) :
                  effects[k].kind = "exit" /\ effects[k].id = i
    /\ (phase = "idle" /\ exit.has) =>
          /\ exit.state = machine.value
          /\ \A i \in DOMAIN effects : effects[i].kind = "exit" => effects[i].id # exit.id

\* two exit callbacks have run and messages were reduced after the first
C8_Witness ==
    \E i, j \in DOMAIN effects :
        /\ i < j
        /\ effects[i].kind = "exit"
        /\ effects[j].kind = "exit"
        /\ \E k \in DOMAIN resolved : k > effects[j].at /\ ContextUpdate(resolved[k])

\* reducer calls that took the machine into state s
EntriesInto(s) ==
    Len(SelectSeq(resolved, LAMBDA r : ~r.threw /\ r.after.value = s /\ r.before.value # s))

\* C9: with initial context {count: 0} and `active` calling
\* update(c => ({count: c.count + 1})) on entry, once every update has been
\* applied the count equals the number of times `active` has been entered,
\* and value and nextEvents are those of the state the machine is in.
C9_CountEqualsEntries ==
    (/\ config = ToggleConfig
     /\ machine.context.count >= 0
     /\ Quiescent) =>
        /\ machine.context.count = EntriesInto("active")
        /\ Range(machine.nextEvents) = KeySet(config, machine.value)

\* C10: an entry effect gets `send` as its first parameter; with
\* error: {on: {RETRY: 'load'}, effect(send) { send('RETRY') }} every entry
\* into `error` dispatches the RETRY event and the machine moves to `load`.
C10_ErrorEntrySendsRetry ==
    (config = RetryConfig /\ \E i \in DOMAIN effects : effects[i].state = "error") =>
        /\ \E j \in DOMAIN sent :
              sent[j].by = "effect" /\ sent[j].msg = EventMsg("RETRY")
        /\ queue = <<>> => machine.value # "error"

Unguarded(r) ==
    /\ r.msg.type = "string"
    /\ r.msg.arg \in KeySet(config, r.before.value)
    /\ OnEntry(config, r.before.value, r.msg.arg).guard = "none"
    /\ OnEntry(config, r.before.value, r.msg.arg).target \in DOMAIN config.states

\* C12: for every S, E and target T in states, E: T and E: {target: T}
\* resolve identically: value = T, context unchanged, nextEvents = key set
\* of states[T].on; the TOGGLE machine alternates with nextEvents = [TOGGLE].
C12_ShorthandEqualsObjectForm ==
    \A i \in DOMAIN resolved :
        LET r == resolved[i]
        IN Unguarded(r) =>
             /\ ~r.threw
             /\ r.after.value = OnEntry(config, r.before.value, r.msg.arg).target
             /\ r.after.context = r.before.context
             /\ Range(r.after.nextEvents) = KeySet(config, r.after.value)
             /\ config = ToggleConfig =>
                   /\ r.after.value # r.before.value
                   /\ r.after.nextEvents = <<"TOGGLE">>

\* reducer calls for an event whose transition is permitted and whose target
\* is not a key of states
PermittedToAbsent(r) ==
    /\ r.msg.type = "string"
    /\ r.msg.arg \in KeySet(config, r.before.value)
    /\ OnEntry(config, r.before.value, r.msg.arg).guard = "none" \/ GuardAllows(r)
    /\ OnEntry(config, r.before.value, r.msg.arg).target \notin DOMAIN config.states

\* C13: a permitted transition whose target is absent from states ends in an
\* error at resolution time and produces no snapshot whose value is not a key
\* of states; value is a key of states in every reachable snapshot.
C13_AbsentTargetIsAnError ==
    /\ \A i \in DOMAIN resolved :
          /\ PermittedToAbsent(resolved[i]) => resolved[i].threw
          /\ ~resolved[i].threw => resolved[i].after.value \in DOMAIN config.states
    /\ Constructed => machine.value \in DOMAIN config.states

\* C14: when `initial` is not a key of states, construction fails: no initial
\* snapshot is produced and nothing is deferred to the first dispatch.
C14_AbsentInitialFailsConstruction ==
    config.initial \notin DOMAIN config.states =>
        /\ error = "construction"
        /\ phase = "crashed"
        /\ sent = <<>> /\ resolved = <<>> /\ effects = <<>>

(***************************************************************************)
(* Ordering of messages and effects                                        *)
(***************************************************************************)
\* an invocation of the given kind for state s made after reducer call i and
\* before reducer call j
InvokedBetween(kind, s, i, j) ==
    \E e \in DOMAIN effects :
        /\ effects[e].kind = kind
        /\ effects[e].state = s
        /\ effects[e].at >= i
        /\ effects[e].at < j

\* C15: when the first of two consecutively dispatched events changes value,
\* its exit callback and entry effect are initiated before the second event
\* is resolved.
C15_EffectsBeforeNextEvent ==
    \A i, j \in DOMAIN resolved :
        (/\ i < j
         /\ resolved[i].msg.type = "string"
         /\ resolved[j].msg.type = "string"
         /\ ~resolved[i].threw
         /\ resolved[i].after.value # resolved[i].before.value) =>
            /\ ReturnsExit(config, resolved[i].before.value) =>
                  InvokedBetween("exit", resolved[i].before.value, i, j)
            /\ HasEffect(config, resolved[i].after.value) =>
                  InvokedBetween("entry", resolved[i].after.value, i, j)

\* the snapshot construction produced
FirstSnapshot == initialState([given |-> TRUE, value |-> machine.context], config).state

\* C16: updates and events share one serialized path and are resolved in the
\* order they were dispatched; an update issued inside an effect is a later
\* message, each message is resolved against the snapshot the previous one
\* left, and updates f1, f2 issued in that order leave context = f2(f1(c)).
C16_ResolvedInDispatchOrder ==
    /\ Len(resolved) <= Len(sent)
    /\ \A k \in DOMAIN resolved :
          /\ resolved[k].msg = sent[k].msg
          /\ sent[k].at < k
          /\ k > 1 => /\ ~resolved[k - 1].threw
                      /\ resolved[k].before = resolved[k - 1].after
          /\ k = 1 => /\ resolved[k].before.value = config.initial
                      /\ resolved[k].before.nextEvents = FirstSnapshot.nextEvents
          /\ (/\ k > 1
              /\ ContextUpdate(resolved[k - 1])
              /\ ContextUpdate(resolved[k])) =>
                 resolved[k].after.context
                   = ApplyUpdater(sent[k].msg.arg,
                                  ApplyUpdater(sent[k - 1].msg.arg,
                                               resolved[k - 1].before.context))
    /\ (Constructed /\ phase # "crashed" /\ resolved # <<>>) =>
          /\ phase = "committed" => machine = resolved[Len(resolved)].after
          /\ queue = [i \in 1..(Len(sent) - Len(resolved)) |->
                        sent[Len(resolved) + i].msg]

\* an exit callback and the next entry effect issued updates whose order
\* matters, a host event was dispatched after them, and all were resolved
C16_Witness ==
    \E k \in DOMAIN resolved :
        /\ k > 2
        /\ sent[k].by = "host"
        /\ sent[k - 1].by = "effect" /\ sent[k - 1].msg.arg = "inc"
        /\ sent[k - 2].by = "effect" /\ sent[k - 2].msg.arg = "dbl"
        /\ resolved[k - 2].before.context.count = 0
        /\ resolved[k].after.context.count = 1

\* reducer calls whose message is an event name
EventName(r) == r.msg.type = "string"

\* C17: context changes only through context-update messages: an event name,
\* whether unrecognized, denied by a guard or taken as a transition, leaves
\* context as it was, and is never interpreted as a context-update message.
C17_EventsLeaveContext ==
    \A k \in DOMAIN resolved :
        LET r == resolved[k]
        IN /\ EventName(r) =>
                /\ r.after.context = r.before.context
                /\ r.after = resolveEvent(config, r.before, r.msg).state
           /\ r.after.context # r.before.context => r.msg.type = __contextKey

\* with a context that updates have changed, one event was denied by a guard,
\* one was not defined by the current state and one was taken as a transition
C17_Witness ==
    \E i, j, k \in DOMAIN resolved :
        /\ \A n \in {i, j, k} : /\ EventName(resolved[n])
                                 /\ ~resolved[n].threw
                                 /\ resolved[n].before.context.count > 0
        /\ Guarded(resolved[i]) /\ ~GuardAllows(resolved[i])
        /\ Unrecognized(resolved[j])
        /\ resolved[k].after.value # resolved[k].before.value

(***************************************************************************)
(* Failures of guards and effects                                          *)
(***************************************************************************)
\* an effect that throws has been invoked
EffectFailed ==
    \E i \in DOMAIN effects :
        effects[i].kind = "entry" /\ EffectOf(config, effects[i].state).throws

\* C18: when a guard or an effect throws while an event is processed, the
\* failure reaches the caller of the dispatch of that event: it surfaces in
\* the send call, and nowhere else.
C18_FailureReachesDispatcher ==
    /\ \A k \in DOMAIN resolved :
          GuardFails(resolved[k]) => resolved[k].threw /\ error = "send"
    /\ EffectFailed => error = "send"

\* a failing guard or effect is not swallowed: the render, or the flush of
\* effects, that ran it fails, after the send that dispatched the event has
\* returned
FailureSurfacesInReact ==
    /\ \A k \in DOMAIN resolved :
          GuardFails(resolved[k]) =>
              /\ resolved[k].threw
              /\ phase = "crashed" /\ error = "render"
              /\ k = Len(resolved)
              /\ sent[k].at < k
    /\ EffectFailed => phase = "crashed" /\ error = "effect"
    /\ error \in {"none", "construction", "render", "effect"}

(***************************************************************************)
(* Context updates and the configuration                                   *)
(***************************************************************************)
\* C19: resolving a context-update message never consults the configuration:
\* no guard is evaluated, the result is the same for every configuration, and
\* it succeeds whatever transitions the current state defines.
C19_UpdateIgnoresConfig ==
    \A k \in DOMAIN resolved :
        LET r == resolved[k]
        IN ContextUpdate(r) =>
             /\ ~r.threw
             /\ r.guards = <<>>
             /\ \A cfg \in Configs :
                   /\ reducer(cfg, r.before, r.msg) = Return(r.after)
                   /\ guardCalls(cfg, r.before, r.msg) = <<>>

\* one update was resolved in a state whose transitions are all guarded, and
\* another in a state without an `on` map
C19_Witness ==
    \E i, j \in DOMAIN resolved :
        /\ ContextUpdate(resolved[i])
        /\ KeySet(config, resolved[i].before.value) # {}
        /\ \A e \in KeySet(config, resolved[i].before.value) :
              OnEntry(config, resolved[i].before.value, e).guard # "none"
        /\ ContextUpdate(resolved[j])
        /\ resolved[j].before.value \in DOMAIN config.states
        /\ ~config.states[resolved[j].before.value].hasOn
        /\ resolved[j].after.context # resolved[j].before.context

====
